---- MODULE Spec2Model ----
(***************************************************************************)
(* A model of the crawl scheduler of src/main.py: the priority frontier,   *)
(* the visited registry, the result store, the worker coroutines of        *)
(* crawl_final with their suspension points, the controller's wait on      *)
(* priority_queue.join() under the total timeout, and the run_crawl        *)
(* endpoint.  Strings (hrefs, URLs, paths) are sequences of one-character  *)
(* strings, and the link classifier and the URL functions are computed on  *)
(* them character by character.                                            *)
(***************************************************************************)
EXTENDS Naturals, Integers, Sequences, FiniteSets, TLC

-----------------------------------------------------------------------------
(* Bounds of the model.                                                    *)

\* The number of links of the large page.
LargePageLinks == 10

\* The number of anchors the renderer returns for one page.
MaxLinks == 2

\* The page cap (MAX_PAGES is 25 in the source).
MaxPagesBound == 2

-----------------------------------------------------------------------------
(* Configuration constants, src/main.py:14-34.                             *)

IGNORE_PATH_KEYWORDS ==
    { <<"p","r","i","v","a","c","y">>,
      <<"l","e","g","a","l">>,
      <<"t","e","r","m","s">>,
      <<"c","o","o","k","i","e">>,
      <<"c","o","n","t","a","c","t">>,
      <<"s","u","p","p","o","r","t">>,
      <<"s","e","c","u","r","i","t","y">>,
      <<"a","c","c","e","s","s","i","b","i","l","i","t","y">>,
      <<"l","o","g","i","n">>,
      <<"a","c","c","o","u","n","t">>,
      <<"s","h","o","p">>,
      <<"c","a","r","t">>,
      <<"f","o","r","u","m">>,
      <<"d","o","w","n","l","o","a","d">>,
      <<"d","r","i","v","e","r">>,
      <<"e","v","e","n","t","s">> }

PRIORITY_PATH_KEYWORDS ==
    { <<"a","b","o","u","t">>,
      <<"s","o","l","u","t","i","o","n">>,
      <<"p","r","o","d","u","c","t">>,
      <<"i","n","d","u","s","t","r","y">>,
      <<"e","n","t","e","r","p","r","i","s","e">>,
      <<"c","o","m","p","a","n","y">>,
      <<"n","e","w","s">>,
      <<"p","r","e","s","s">>,
      <<"b","l","o","g">>,
      <<"i","n","v","e","s","t","o","r">>,
      <<"c","a","r","e","e","r">>,
      <<"p","l","a","t","f","o","r","m">>,
      <<"w","h","o","-","w","e","-","a","r","e">>,
      <<"a","b","o","u","t"," ","u","s">> }

IGNORE_EXTENSIONS_PROTOCOLS ==
    { <<".","p","d","f">>,
      <<".","z","i","p">>,
      <<".","j","p","g">>,
      <<".","p","n","g">>,
      <<".","s","v","g">>,
      <<".","c","s","s">>,
      <<".","j","s">>,
      <<".","x","m","l">>,
      <<".","r","s","s">>,
      <<"m","a","i","l","t","o",":">>,
      <<"t","e","l",":">>,
      <<"j","a","v","a","s","c","r","i","p","t",":">> }

\* The alternatives of IGNORE_PATTERN_REGEX before its \d{4,} branch.
IGNORE_PATTERN_SEGMENTS ==
    { <<"/","c","a","t","a","l","o","g","u","e","/">>,
      <<"/","i","t","e","m","/">>,
      <<"/","p","r","o","d","u","c","t","/">>,
      <<"/","p","a","g","e","-","/">> }

\* The {4,} of IGNORE_PATTERN_REGEX.
IGNORE_PATTERN_DIGITS == 4

MAX_DEPTH == 2

\* MAX_PAGES, scaled to the model's bound.
MAX_PAGES == MaxPagesBound

\* CONCURRENCY (5 in the source), scaled: the model runs two workers.
CONCURRENCY == 2

MAX_TEXT_CHARS == 8000

\* The length below which a "page not found" text is a soft failure.
NOT_FOUND_MAX_LEN == 150

\* The factor of MAX_PAGES that caps the visited registry.
VISITED_FACTOR == 5

\* The priority of a link inside a nav element, and of the seed.
NAV_PRIORITY == 3

\* The depth the seed is put with.
SEED_DEPTH == 1

-----------------------------------------------------------------------------
(* Python's str operations on sequences of characters.                     *)

\* The printable ASCII characters in code-point order, from 32 (the quote, the
\* backslash and the backtick, which no modelled string holds, by name).
Printable ==
    <<" ","!","<quote>","#","$","%","&","'","(",")","*","+",",","-",".","/","0","1","2","3","4","5","6","7","8","9",":",";","<","=",">","?","@","A","B","C","D","E","F","G","H","I","J","K","L","M","N","O","P","Q","R","S","T","U","V","W","X","Y","Z","[","<backslash>","]","^","_","<backtick>","a","b","c","d","e","f","g","h","i","j","k","l","m","n","o","p","q","r","s","t","u","v","w","x","y","z","{","|","}","~">>

\* The code point of each printable character.
CodePoint == [c \in {Printable[i] : i \in 1..Len(Printable)} |->
                31 + (CHOOSE i \in 1..Len(Printable) : Printable[i] = c)]

\* ord(c).
Ord(c) == CodePoint[c]

IsUpper(c) == Ord(c) >= 65 /\ Ord(c) <= 90

IsAlpha(c) == IsUpper(c) \/ (Ord(c) >= 97 /\ Ord(c) <= 122)

IsDigit(c) == Ord(c) >= 48 /\ Ord(c) <= 57

\* str.lower().
Lower(s) == [i \in 1..Len(s) |-> IF IsUpper(s[i]) THEN Printable[Ord(s[i]) + 32 - 31] ELSE s[i]]

\* s[i:] with a 1-based i.
From(s, i) == SubSeq(s, i, Len(s))

\* str.startswith(p).
StartsWith(s, p) == Len(p) <= Len(s) /\ SubSeq(s, 1, Len(p)) = p

\* k in s.
Contains(s, k) == \E i \in 1..(Len(s) + 1 - Len(k)) : SubSeq(s, i, i + Len(k) - 1) = k

\* str.find(c) + 1: the first index of c in s, 0 when there is none.
Find(s, c) ==
    IF \E i \in 1..Len(s) : s[i] = c
    THEN CHOOSE i \in 1..Len(s) : s[i] = c /\ \A j \in 1..(i - 1) : s[j] # c
    ELSE 0

\* The first index of a character of cs in s, Len(s) + 1 when there is none.
FindAny(s, cs) ==
    IF \E i \in 1..Len(s) : s[i] \in cs
    THEN CHOOSE i \in 1..Len(s) : s[i] \in cs /\ \A j \in 1..(i - 1) : s[j] \notin cs
    ELSE Len(s) + 1

\* The str comparison a < b: lexicographic by code point.
RECURSIVE StrLess(_, _)
StrLess(a, b) ==
    IF b = <<>> THEN FALSE
    ELSE IF a = <<>> THEN TRUE
    ELSE IF Ord(a[1]) # Ord(b[1]) THEN Ord(a[1]) < Ord(b[1])
    ELSE StrLess(Tail(a), Tail(b))

\* str.split(c).
RECURSIVE Split(_, _)
Split(s, c) ==
    LET i == Find(s, c)
    IN  IF i = 0 THEN <<s>> ELSE <<SubSeq(s, 1, i - 1)>> \o Split(From(s, i + 1), c)

\* c.join(segs).
RECURSIVE Join(_, _)
Join(segs, c) ==
    IF segs = <<>> THEN <<>>
    ELSE IF Len(segs) = 1 THEN segs[1]
    ELSE segs[1] \o <<c>> \o Join(Tail(segs), c)

\* filter(None, segs): the non-empty segments.
RECURSIVE FilterNonEmpty(_)
FilterNonEmpty(segs) ==
    IF segs = <<>> THEN <<>>
    ELSE (IF segs[1] = <<>> THEN <<>> ELSE <<segs[1]>>) \o FilterNonEmpty(Tail(segs))

\* The digit branch of IGNORE_PATTERN_REGEX: a run of at least IGNORE_PATTERN_DIGITS digits.
HasDigitRun(s) ==
    \E i \in 1..(Len(s) + 1 - IGNORE_PATTERN_DIGITS) :
        \A j \in i..(i + IGNORE_PATTERN_DIGITS - 1) : IsDigit(s[j])

\* IGNORE_PATTERN_REGEX.search(s).
IgnorePatternSearch(s) ==
    \/ \E seg \in IGNORE_PATTERN_SEGMENTS : Contains(s, seg)
    \/ HasDigitRun(s)

-----------------------------------------------------------------------------
(* urllib.parse on sequences of characters.  Parameters (";") and           *)
(* whitespace stripping are left out: no modelled string holds them.       *)

HTTP == <<"h","t","t","p">>

HTTPS == <<"h","t","t","p","s">>

\* urllib.parse.uses_relative and uses_netloc, the schemes the model meets.
UsesRelative == {<<>>, HTTP, HTTPS}

IsSchemeChar(c) == IsAlpha(c) \/ IsDigit(c) \/ c \in {"+", "-", "."}

\* The last steps of urlsplit: the query is split off at the first "?".
SplitQuery(scheme, netloc, r, fragment, q) ==
    [scheme |-> scheme, netloc |-> netloc,
     path |-> IF q > 0 THEN SubSeq(r, 1, q - 1) ELSE r,
     query |-> IF q > 0 THEN From(r, q + 1) ELSE <<>>,
     fragment |-> fragment]

\* The fragment is split off at the first "#", h.
SplitFragmentAt(scheme, netloc, r, h) ==
    IF h > 0
    THEN SplitQuery(scheme, netloc, SubSeq(r, 1, h - 1), From(r, h + 1),
                    Find(SubSeq(r, 1, h - 1), "?"))
    ELSE SplitQuery(scheme, netloc, r, <<>>, Find(r, "?"))

SplitFragment(scheme, netloc, r) == SplitFragmentAt(scheme, netloc, r, Find(r, "#"))

\* The netloc of "//netloc...": up to the first of "/", "?", "#", at d.
SplitNetlocAt(scheme, r, d) == SplitFragment(scheme, SubSeq(r, 1, d - 1), From(r, d))

SplitNetloc(scheme, rest) ==
    IF StartsWith(rest, <<"/","/">>)
    THEN SplitNetlocAt(scheme, From(rest, 3), FindAny(From(rest, 3), {"/", "?", "#"}))
    ELSE SplitFragment(scheme, <<>>, rest)

\* url[:i] is a scheme: i is the place of the first ":", after a letter and
\* scheme characters only.
HasScheme(url, i) ==
    i > 1 /\ IsAlpha(url[1]) /\ \A j \in 1..(i - 1) : IsSchemeChar(url[j])

SplitSchemeAt(url, default, i) ==
    IF HasScheme(url, i)
    THEN SplitNetloc(Lower(SubSeq(url, 1, i - 1)), From(url, i + 1))
    ELSE SplitNetloc(default, url)

\* urlparse(url, scheme=default): scheme, netloc, path, query, fragment.
urlparseDefault(url, default) == SplitSchemeAt(url, default, Find(url, ":"))

\* urlparse(url).
urlparse(url) == urlparseDefault(url, <<>>)

\* url with the query and the fragment of p put after it.
WithQueryFragment(url, p) ==
    url \o (IF p.query # <<>> THEN <<"?">> \o p.query ELSE <<>>)
        \o (IF p.fragment # <<>> THEN <<"#">> \o p.fragment ELSE <<>>)

\* url with the scheme of p put before it.
WithSchemeOf(url, p) ==
    WithQueryFragment(IF p.scheme # <<>> THEN p.scheme \o <<":">> \o url ELSE url, p)

\* urlunparse(p).
urlunparse(p) ==
    IF p.netloc # <<>> \/ (p.scheme \in {HTTP, HTTPS} /\ ~StartsWith(p.path, <<"/","/">>))
    THEN WithSchemeOf(<<"/","/">> \o p.netloc \o
                      (IF p.path # <<>> /\ p.path[1] # "/" THEN <<"/">> \o p.path ELSE p.path),
                      p)
    ELSE WithSchemeOf(p.path, p)

\* The loop of urljoin that removes "." and ".." segments.
RECURSIVE ResolveSegments(_, _)
ResolveSegments(segments, resolved) ==
    IF segments = <<>> THEN resolved
    ELSE IF segments[1] = <<".", ".">>
         THEN ResolveSegments(Tail(segments),
                              IF resolved = <<>> THEN <<>>
                              ELSE SubSeq(resolved, 1, Len(resolved) - 1))
    ELSE IF segments[1] = <<".">> THEN ResolveSegments(Tail(segments), resolved)
    ELSE ResolveSegments(Tail(segments), Append(resolved, segments[1]))

\* base_parts of urljoin: the base path's segments without the last one,
\* unless that is empty.
BaseParts(parts) ==
    IF parts[Len(parts)] # <<>> THEN SubSeq(parts, 1, Len(parts) - 1) ELSE parts

\* segments[1:-1] = filter(None, segments[1:-1]).
FilterMiddle(segments) ==
    IF Len(segments) <= 2 THEN segments
    ELSE <<segments[1]>> \o FilterNonEmpty(SubSeq(segments, 2, Len(segments) - 1))
         \o <<segments[Len(segments)]>>

\* The segments urljoin resolves: the path's own when it starts with "/",
\* else the base's followed by the path's.
JoinSegments(bpath, path) ==
    IF StartsWith(path, <<"/">>) THEN Split(path, "/")
    ELSE FilterMiddle(BaseParts(Split(bpath, "/")) \o Split(path, "/"))

\* The resolved segments joined, "/" when nothing is left.
ResolvedPath(segments, resolved) ==
    IF Join(IF segments[Len(segments)] \in {<<".">>, <<".", ".">>}
            THEN Append(resolved, <<>>) ELSE resolved, "/") = <<>>
    THEN <<"/">>
    ELSE Join(IF segments[Len(segments)] \in {<<".">>, <<".", ".">>}
              THEN Append(resolved, <<>>) ELSE resolved, "/")

JoinPath(segments) == ResolvedPath(segments, ResolveSegments(segments, <<>>))

\* urljoin, from the parsed base b and the parsed url u.
JoinParsed(b, u, url) ==
    IF u.scheme # b.scheme \/ u.scheme \notin UsesRelative THEN url
    ELSE IF u.netloc # <<>> THEN urlunparse(u)
    ELSE urlunparse(
           IF u.path = <<>>
           THEN [scheme |-> u.scheme, netloc |-> b.netloc, path |-> b.path,
                 query |-> IF u.query = <<>> THEN b.query ELSE u.query,
                 fragment |-> u.fragment]
           ELSE [scheme |-> u.scheme, netloc |-> b.netloc,
                 path |-> JoinPath(JoinSegments(b.path, u.path)),
                 query |-> u.query, fragment |-> u.fragment])

JoinFromBase(b, url) == JoinParsed(b, urlparseDefault(url, b.scheme), url)

\* urljoin(base, url).
urljoin(base, url) ==
    IF base = <<>> THEN url
    ELSE IF url = <<>> THEN base
    ELSE JoinFromBase(urlparse(base), url)

\* p without its fragment.
Defragged(p) == urlunparse([p EXCEPT !.fragment = <<>>])

\* urldefrag(url).url.
urldefrag(url) == IF Find(url, "#") > 0 THEN Defragged(urlparse(url)) ELSE url

-----------------------------------------------------------------------------
(* The link classifier, src/main.py:43-71.                                 *)

\* The tests of get_link_priority on path.lower().
PriorityOfLower(path_lower) ==
    IF \E keyword \in PRIORITY_PATH_KEYWORDS : Contains(path_lower, keyword) THEN 2
    ELSE IF path_lower = <<"/">> THEN 1
    ELSE 0

\* get_link_priority(path).
get_link_priority(path) == PriorityOfLower(Lower(path))

\* RelevantPath without the keyword test of lines 65-66.
RelevantPathNoKeywords(path) ==
    IF IgnorePatternSearch(path) THEN FALSE
    ELSE TRUE

\* The tests of is_relevant_link on parsed_href.path.lower() (lines 64-71).
RelevantPath(path) ==
    IF \E keyword \in IGNORE_PATH_KEYWORDS : Contains(path, keyword) THEN FALSE
    ELSE IF IgnorePatternSearch(path) THEN FALSE
    ELSE TRUE

\* The tests of is_relevant_link on urlparse(href) (lines 60-71).
RelevantParsed(parsed_href, netloc) ==
    IF parsed_href.netloc # <<>> /\ parsed_href.netloc # netloc THEN FALSE
    ELSE RelevantPath(Lower(parsed_href.path))

\* is_relevant_link(href, base_netloc).
is_relevant_link(href, netloc) ==
    IF href = <<>> \/ StartsWith(href, <<"#">>) THEN FALSE
    ELSE IF \E prefix \in IGNORE_EXTENSIONS_PROTOCOLS : StartsWith(Lower(href), prefix) THEN FALSE
    ELSE RelevantParsed(urlparse(href), netloc)

-----------------------------------------------------------------------------
(* The inputs: the requested domain, and what the renderer shows.          *)

\* The site requested without a trailing slash: its pages hold anchors of the
\* catalogue.
SmallSite == <<"e","x",".","i","o">>

\* The site requested with the trailing slash: its seed page is the large
\* page.
LargeSite == <<"e","x",".","i","o","/">>

\* The domains a request may name.
Domains == {SmallSite, LargeSite}

\* The anchors {href, inNav} a page of the site may hold, as
\* eval_on_selector_all returns them.
Anchors ==
    { [href |-> <<"/","a","b","o","u","t">>, inNav |-> FALSE],
      [href |-> <<"/","a","b","o","u","t","?","p","=","2","#","t","e","a","m">>, inNav |-> TRUE],
      [href |-> <<"/","L","e","g","a","l">>, inNav |-> FALSE],
      [href |-> <<"/","c","o","n","t","a","c","t">>, inNav |-> TRUE],
      [href |-> <<"/","t","e","a","m">>, inNav |-> FALSE],
      [href |-> <<"/","t","e","a","m">>, inNav |-> TRUE],
      [href |-> <<"/","p","/","1","2","3","4","5">>, inNav |-> FALSE],
      [href |-> <<"m","a","i","l","t","o",":","a">>, inNav |-> FALSE],
      [href |-> <<"/">>, inNav |-> FALSE] }

\* The letters that name the links of the large page.
Letters ==
    <<"a","b","c","d","e","f","g","h","i","j","k","l","m","n","o","p","q","r","s","t">>

\* A page with a link to the home page and LargePageLinks relevant links /a,
\* /b, ...: with the seed they are one more than the visited registry may
\* hold.
LargePage ==
    { [href |-> <<"/">>, inNav |-> FALSE] }
    \cup { [href |-> <<"/", Letters[i]>>, inNav |-> FALSE] : i \in 1..LargePageLinks }

\* The anchor lists a page of the other sites may hold: at most MaxLinks
\* anchors of the catalogue.
AnchorLists == { l \in SUBSET Anchors : Cardinality(l) <= MaxLinks }

\* The raw texts extract_main_content may return for the page at url: its
\* length, the whitespace clean_text removes from it, and whether its lower
\* case holds "page not found".  The home page answers with a short text
\* without the phrase or with the bare phrase; any other page holds the phrase
\* in a text of 150 characters or of 149 (the pages /a, /b, ... of the large
\* site: of 150).
PageTexts(url) ==
    IF urlparse(url).path \in {<<>>, <<"/">>}
    THEN { [of |-> url, len |-> 100, pad |-> 10, marker |-> FALSE],
           [of |-> url, len |-> 14, pad |-> 0, marker |-> TRUE] }
    ELSE IF Len(urlparse(url).path) = 2
    THEN { [of |-> url, len |-> 150, pad |-> 20, marker |-> TRUE] }
    ELSE { [of |-> url, len |-> 150, pad |-> 20, marker |-> TRUE],
           [of |-> url, len |-> 149, pad |-> 0, marker |-> TRUE] }

-----------------------------------------------------------------------------
(* The state.                                                              *)

VARIABLES
    domain,            \* request.domain
    page_links,        \* the anchors of the site's pages (the renderer's answer)
    results,           \* results: path key -> stored text
    visited_urls,      \* visited_urls
    priority_queue,    \* the items of priority_queue, in insertion order
    unfinished_tasks,  \* priority_queue._unfinished_tasks
    join_finished,     \* priority_queue.join() has completed for the controller
    put_log,           \* every item put on priority_queue, in order
    pc,                \* each worker's suspension point, or how its task ended
    entry,             \* each worker's (priority, full_url, depth)
    page,              \* each worker's page: "open" or "closed"
    cancel_requested,  \* task.cancel() was called on the worker's task
    ctrl,              \* the controller's position in crawl_final
    timed_out,         \* the wait ended by asyncio.TimeoutError
    data,              \* the "sections" of the value crawl_final returned
    response           \* the HTTP status run_crawl answered with

vars == <<domain, page_links, results, visited_urls, priority_queue, unfinished_tasks,
          join_finished, put_log, pc, entry, page, cancel_requested, ctrl, timed_out,
          data, response>>

shared == <<results, visited_urls, priority_queue, unfinished_tasks, join_finished, put_log>>

Workers == 1..CONCURRENCY

NoEntry == <<>>

\* The suspension points inside the try block of the worker loop.
InTry == {"get", "timed_out", "goto", "extract", "eval_links"}

\* The ways a worker's task ends.
Terminated == {"returned", "cancelled", "error"}

-----------------------------------------------------------------------------
(* crawl_final's preamble, src/main.py:85-100.                             *)

\* domain with "https://" put before it unless it names a scheme.
WithScheme(d) ==
    IF StartsWith(d, HTTP \o <<":","/","/">>) \/ StartsWith(d, HTTPS \o <<":","/","/">>)
    THEN d
    ELSE HTTPS \o <<":","/","/">> \o d

parsed_domain(d) == urlparse(WithScheme(d))

\* base_url, from parsed_domain.
BaseUrlOf(p) == p.scheme \o <<":","/","/">> \o p.netloc

base_url(d) == BaseUrlOf(parsed_domain(d))

base_netloc(d) == parsed_domain(d).netloc

\* start_url, from parsed_domain.
StartUrlOf(p) == urljoin(BaseUrlOf(p), p.path)

start_url(d) == StartUrlOf(parsed_domain(d))

\* The item the seed is put as.
SeedEntry(d) == <<-NAV_PRIORITY, start_url(d), SEED_DEPTH>>

-----------------------------------------------------------------------------
(* asyncio.PriorityQueue as the code uses it.                              *)

\* The tuple comparison a < b of two items (priority, url, depth).
EntryLess(a, b) ==
    \/ a[1] < b[1]
    \/ a[1] = b[1] /\ StrLess(a[2], b[2])
    \/ a[1] = b[1] /\ a[2] = b[2] /\ a[3] < b[3]

\* MinIndex for a plain FIFO queue: the item first put.
FirstIndex(q) == 1

\* The index of the item get() returns: the least item of the heap.
MinIndex(q) ==
    CHOOSE i \in 1..Len(q) :
        /\ \A j \in 1..Len(q) : ~EntryLess(q[j], q[i])
        /\ \A j \in 1..(i - 1) : q[j] # q[i]

\* The queue with its i-th item removed.
Without(q, i) == SubSeq(q, 1, i - 1) \o SubSeq(q, i + 1, Len(q))

\* task_done() with u unfinished tasks: it raises ValueError when none is
\* unfinished, and sets the join event when the count reaches 0.
TaskDone(u) ==
    [unfinished |-> IF u <= 0 THEN u ELSE u - 1,
     raised     |-> u <= 0,
     zero       |-> u = 1]

\* The finally clause of the loop (lines 150-152) with u unfinished tasks and
\* queue q: task_done() unless the queue is empty.
Finally(u, q) ==
    IF q # <<>> THEN TaskDone(u)
    ELSE [unfinished |-> u, raised |-> FALSE, zero |-> FALSE]

-----------------------------------------------------------------------------
(* The worker's steps, src/main.py:106-153.                                *)

\* The end of one pass of the loop body: the finally clause runs with u
\* unfinished tasks and queue q; zero tells that a task_done() of the body
\* already brought the count to 0.  how is "continue" (the body ended, by
\* continue, by falling through or by a swallowed Exception), "break" (the
\* get timed out) or "cancel" (CancelledError passes through).  A ValueError
\* of the finally clause ends the task.
LoopEnd(w, u, q, zero, how) ==
    LET f == Finally(u, q)
    IN  /\ unfinished_tasks' = f.unfinished
        /\ join_finished' = (join_finished \/ (ctrl = "join" /\ (zero \/ f.zero)))
        /\ pc' = [pc EXCEPT ![w] =
                    IF f.raised THEN "error"
                    ELSE IF how = "continue" THEN "get"
                    ELSE IF how = "break" THEN "close"
                    ELSE "cancelled"]
        /\ entry' = [entry EXCEPT ![w] = NoEntry]

\* Runs with a cancelled task left to run on.
RunsThoughCancelled(w) == TRUE

\* The worker may run: its task was not cancelled.
Runs(w) == ~cancel_requested[w]

\* The skip guard of line 112.
AtCap(r) == Cardinality(DOMAIN r) >= MAX_PAGES

\* priority_queue.get() returns an item: the skip guard acknowledges it and
\* continues, or page.goto starts.
WGet(w) ==
    /\ pc[w] = "get" /\ Runs(w)
    /\ priority_queue # <<>>
    /\ LET i == MinIndex(priority_queue)
           q == Without(priority_queue, i)
       IN  /\ priority_queue' = q
           /\ IF AtCap(results)
              THEN LET t == TaskDone(unfinished_tasks)
                   IN  LoopEnd(w, t.unfinished, q, t.zero, "continue")
              ELSE /\ entry' = [entry EXCEPT ![w] = priority_queue[i]]
                   /\ pc' = [pc EXCEPT ![w] = "goto"]
                   /\ UNCHANGED <<unfinished_tasks, join_finished>>
    /\ UNCHANGED <<domain, page_links, results, visited_urls, put_log, page,
                   cancel_requested, ctrl, timed_out, data, response>>

\* The 3 s of wait_for(priority_queue.get()) pass with the queue empty.
WGetTimeout(w) ==
    /\ pc[w] = "get" /\ Runs(w)
    /\ priority_queue = <<>>
    /\ pc' = [pc EXCEPT ![w] = "timed_out"]
    /\ UNCHANGED <<domain, page_links, shared, entry, page, cancel_requested, ctrl,
                   timed_out, data, response>>

\* The worker resumes with asyncio.TimeoutError: break, through the finally
\* clause.
WTimeoutBreak(w) ==
    /\ pc[w] = "timed_out" /\ Runs(w)
    /\ LoopEnd(w, unfinished_tasks, priority_queue, FALSE, "break")
    /\ UNCHANGED <<domain, page_links, results, visited_urls, priority_queue, put_log,
                   page, cancel_requested, ctrl, timed_out, data, response>>

\* page.goto returns.
WGoto(w) ==
    /\ pc[w] = "goto" /\ Runs(w)
    /\ pc' = [pc EXCEPT ![w] = "extract"]
    /\ UNCHANGED <<domain, page_links, shared, entry, page, cancel_requested, ctrl,
                   timed_out, data, response>>

\* page.goto, extract_main_content or eval_on_selector_all raises (a
\* navigation timeout, a renderer error): except Exception swallows it.
WPageError(w) ==
    /\ pc[w] \in {"goto", "extract", "eval_links"} /\ Runs(w)
    /\ LoopEnd(w, unfinished_tasks, priority_queue, FALSE, "continue")
    /\ UNCHANGED <<domain, page_links, results, visited_urls, priority_queue, put_log,
                   page, cancel_requested, ctrl, timed_out, data, response>>

\* urlparse(full_url).path or "/".
PathOrRoot(path) == IF path = <<>> THEN <<"/">> ELSE path

\* The path_key of line 119.
PathKey(full_url) == PathOrRoot(urlparse(full_url).path)

\* IsNotFound with the threshold one character lower.
IsNotFoundShorter(text) == text.marker /\ text.len < NOT_FOUND_MAX_LEN - 1

\* The soft-failure test of line 121.
IsNotFound(text) == text.marker /\ text.len < NOT_FOUND_MAX_LEN

\* clean_text(text)[:MAX_TEXT_CHARS]; raw keeps the length of the text it was
\* cleaned from.
Stored(text) ==
    [of |-> text.of,
     len |-> IF text.len - text.pad > MAX_TEXT_CHARS THEN MAX_TEXT_CHARS
             ELSE text.len - text.pad,
     marker |-> text.marker,
     raw |-> text.len]

\* results[path_key] = value.
SetItem(r, k, v) == [x \in DOMAIN r \cup {k} |-> IF x = k THEN v ELSE r[x]]

\* MayDispatch with <= for <.
MayDispatchAtMaxDepth(depth) == depth <= MAX_DEPTH

\* The depth test of line 128.
MayDispatch(depth) == depth < MAX_DEPTH

\* extract_main_content returns: a soft failure is acknowledged and skipped;
\* any other text is stored, and the links are asked for when the depth allows.
WExtract(w) ==
    /\ pc[w] = "extract" /\ Runs(w)
    /\ \E text \in PageTexts(entry[w][2]) :
          IF IsNotFound(text)
          THEN /\ LET t == TaskDone(unfinished_tasks)
                  IN  LoopEnd(w, t.unfinished, priority_queue, t.zero, "continue")
               /\ UNCHANGED results
          ELSE /\ results' = SetItem(results, PathKey(entry[w][2]), Stored(text))
               /\ IF MayDispatch(entry[w][3])
                  THEN /\ pc' = [pc EXCEPT ![w] = "eval_links"]
                       /\ UNCHANGED <<unfinished_tasks, join_finished, entry>>
                  ELSE LoopEnd(w, unfinished_tasks, priority_queue, FALSE, "continue")
    /\ UNCHANGED <<domain, page_links, visited_urls, priority_queue, put_log, page,
                   cancel_requested, ctrl, timed_out, data, response>>

\* {link['href'] for link in links if link['href']}.
unique_hrefs(links) == { l.href : l \in { x \in links : x.href # <<>> } }

\* The orders in which a for loop may walk the set S.
RECURSIVE Orders(_)
Orders(S) ==
    IF S = {} THEN {<<>>}
    ELSE UNION { { <<x>> \o o : o \in Orders(S \ {x}) } : x \in S }

\* The strings of S from the least to the greatest.
RECURSIVE Ascending(_)
Ascending(S) ==
    IF S = {} THEN <<>>
    ELSE LET least == CHOOSE x \in S : \A y \in S \ {x} : StrLess(x, y)
         IN  <<least>> \o Ascending(S \ {least})

\* The orders in which the for loop of line 133 may walk unique_hrefs: any
\* order (the iteration order of a set of strings); for the large page the
\* model takes one of them.
IterationOrders(S) ==
    IF Cardinality(S) <= MaxLinks THEN Orders(S)
    ELSE {Ascending(S)}

\* ShouldEnqueue without the cap test of line 137.
ShouldEnqueueUncapped(abs_url, visited) == abs_url \notin visited

\* ShouldEnqueue without the registry test of line 136.
ShouldEnqueueUnregistered(abs_url, visited) ==
    Cardinality(visited) < MAX_PAGES * VISITED_FACTOR

\* The tests of lines 136-137: not visited, and the registry below its cap.
ShouldEnqueue(abs_url, visited) ==
    /\ abs_url \notin visited
    /\ Cardinality(visited) < MAX_PAGES * VISITED_FACTOR

\* LinkPriority without the nav boost of lines 141-142.
LinkPriorityNoBoost(href, abs_url, links) ==
    get_link_priority(urlparse(abs_url).path)

\* The priority of lines 139-142: get_link_priority of the resolved path,
\* raised to 3 when an anchor with this href is inside a nav element.
LinkPriority(href, abs_url, links) ==
    IF \E link \in links : link.href = href /\ link.inNav
    THEN NAV_PRIORITY
    ELSE get_link_priority(urlparse(abs_url).path)

\* One pass of the for loop of lines 133-143, for href resolved to abs_url,
\* from registry st.visited: the registry and the items put, in order.
DispatchOne(href, abs_url, links, depth, netloc, st) ==
    IF is_relevant_link(href, netloc) /\ ShouldEnqueue(abs_url, st.visited)
    THEN [visited |-> st.visited \cup {abs_url},
          puts |-> Append(st.puts,
                          <<-LinkPriority(href, abs_url, links), abs_url, depth + 1>>)]
    ELSE st

\* The for loop of lines 133-143 over hrefs.
RECURSIVE DispatchLoop(_, _, _, _, _, _)
DispatchLoop(hrefs, links, full_url, depth, netloc, st) ==
    IF hrefs = <<>> THEN st
    ELSE DispatchLoop(Tail(hrefs), links, full_url, depth, netloc,
                      DispatchOne(Head(hrefs), urldefrag(urljoin(full_url, Head(hrefs))),
                                  links, depth, netloc, st))

\* The queue, the put log and the count after the items of st were put, and
\* the end of the pass.
Dispatched(w, st) ==
    /\ visited_urls' = st.visited
    /\ priority_queue' = priority_queue \o st.puts
    /\ put_log' = put_log \o st.puts
    /\ LoopEnd(w, unfinished_tasks + Len(st.puts), priority_queue \o st.puts, FALSE,
               "continue")

\* eval_on_selector_all returns the page's anchors and the for loop runs over
\* them, without suspending.
WDispatch(w) ==
    /\ pc[w] = "eval_links" /\ Runs(w)
    /\ \E hrefs \in IterationOrders(unique_hrefs(page_links)) :
          Dispatched(w, DispatchLoop(hrefs, page_links, entry[w][2], entry[w][3],
                                     base_netloc(domain),
                                     [visited |-> visited_urls, puts |-> <<>>]))
    /\ UNCHANGED <<domain, page_links, results, page, cancel_requested, ctrl, timed_out,
                   data, response>>

\* await page.close(), after the loop.
WClose(w) ==
    /\ pc[w] = "close" /\ Runs(w)
    /\ page' = [page EXCEPT ![w] = "closed"]
    /\ pc' = [pc EXCEPT ![w] = "returned"]
    /\ UNCHANGED <<domain, page_links, shared, entry, cancel_requested, ctrl, timed_out,
                   data, response>>

\* The cancelled task resumes with CancelledError at its await: inside the try
\* block the finally clause runs, and the task ends without page.close().
WCancelled(w) ==
    /\ cancel_requested[w] /\ pc[w] \notin Terminated
    /\ IF pc[w] \in InTry
       THEN LoopEnd(w, unfinished_tasks, priority_queue, FALSE, "cancel")
       ELSE /\ pc' = [pc EXCEPT ![w] = "cancelled"]
            /\ entry' = [entry EXCEPT ![w] = NoEntry]
            /\ UNCHANGED <<unfinished_tasks, join_finished>>
    /\ UNCHANGED <<domain, page_links, results, visited_urls, priority_queue, put_log,
                   page, cancel_requested, ctrl, timed_out, data, response>>

-----------------------------------------------------------------------------
(* The controller, src/main.py:155-174, and run_crawl, src/main.py:188-201. *)

\* for task in tasks: task.cancel(); a finished task is left as it is.
CancelTasks == [w \in Workers |-> cancel_requested[w] \/ pc[w] \notin Terminated]

\* TotalTimeoutArmed for a join() awaited without wait_for.
NoTotalTimeout == FALSE

\* The total timeout can end the wait.
TotalTimeoutArmed == ctrl = "join" /\ ~join_finished

\* wait_for(priority_queue.join()) returns: the tasks are cancelled.
CtrlJoined ==
    /\ ctrl = "join" /\ join_finished
    /\ cancel_requested' = CancelTasks
    /\ ctrl' = "gather"
    /\ UNCHANGED <<domain, page_links, shared, pc, entry, page, timed_out, data, response>>

\* wait_for raises asyncio.TimeoutError after TOTAL_TIMEOUT: the message is
\* printed and the tasks are cancelled.
CtrlTimeout ==
    /\ TotalTimeoutArmed
    /\ timed_out' = TRUE
    /\ cancel_requested' = CancelTasks
    /\ ctrl' = "gather"
    /\ UNCHANGED <<domain, page_links, shared, pc, entry, page, data, response>>

\* context.close() with the pages left as they are.
ContextLeftOpen(p) == p

\* await context.close() (line 166): every page of the context is closed with
\* it, those of the workers that did not reach page.close() included.
ContextClosed(p) == [w \in Workers |-> "closed"]

\* gather returns once every task has ended; the context and the browser are
\* closed and the result is returned.
CtrlReturn ==
    /\ ctrl = "gather"
    /\ \A w \in Workers : pc[w] \in Terminated
    /\ page' = ContextClosed(page)
    /\ ctrl' = "returned"
    /\ data' = results
    /\ UNCHANGED <<domain, page_links, shared, pc, entry, cancel_requested, timed_out,
                   response>>

HTTP_OK == 200

HTTP_NOT_FOUND == 404

HTTP_INTERNAL_ERROR == 500

\* The exception raised inside run_crawl's try block: the HTTPException of
\* line 196 for empty sections.
RaisedInTry(sections) ==
    IF DOMAIN sections = {} THEN "HTTPException" ELSE "none"

\* The status run_crawl answers with: except Exception (line 199) catches
\* whatever the try block raised, HTTPException included, and raises the 500.
RunCrawlStatus(sections) ==
    IF RaisedInTry(sections) # "none" THEN HTTP_INTERNAL_ERROR ELSE HTTP_OK

\* crawl_final has returned and run_crawl answers.
RunCrawl ==
    /\ ctrl = "returned"
    /\ response = 0
    /\ response' = RunCrawlStatus(data)
    /\ UNCHANGED <<domain, page_links, shared, pc, entry, page, cancel_requested, ctrl,
                   timed_out, data>>

-----------------------------------------------------------------------------
(* The specification.                                                      *)

\* The state once the seed is put, the workers have opened their pages (line
\* 107) and the controller waits on priority_queue.join() (line 158).
Init ==
    /\ \/ domain = SmallSite /\ page_links \in AnchorLists
       \/ domain = LargeSite /\ page_links = LargePage
    /\ results = <<>>
    /\ visited_urls = {start_url(domain)}
    /\ priority_queue = <<SeedEntry(domain)>>
    /\ unfinished_tasks = 1
    /\ join_finished = FALSE
    /\ put_log = <<SeedEntry(domain)>>
    /\ pc = [w \in Workers |-> "get"]
    /\ entry = [w \in Workers |-> NoEntry]
    /\ page = [w \in Workers |-> "open"]
    /\ cancel_requested = [w \in Workers |-> FALSE]
    /\ ctrl = "join"
    /\ timed_out = FALSE
    /\ data = <<>>
    /\ response = 0

Next ==
    \/ \E w \in Workers : WGet(w)
    \/ \E w \in Workers : WGetTimeout(w)
    \/ \E w \in Workers : WTimeoutBreak(w)
    \/ \E w \in Workers : WGoto(w)
    \/ \E w \in Workers : WPageError(w)
    \/ \E w \in Workers : WExtract(w)
    \/ \E w \in Workers : WDispatch(w)
    \/ \E w \in Workers : WClose(w)
    \/ \E w \in Workers : WCancelled(w)
    \/ CtrlJoined
    \/ CtrlTimeout
    \/ CtrlReturn
    \/ RunCrawl

Spec == Init /\ [][Next]_vars

\* The total timeout fires, and the event loop runs the tasks that are ready:
\* the controller's and the cancelled workers'.  Nothing is assumed of the
\* renderer's answers.
FairSpec ==
    /\ Spec
    /\ WF_vars(CtrlTimeout)
    /\ WF_vars(CtrlJoined)
    /\ WF_vars(CtrlReturn)
    /\ WF_vars(RunCrawl)
    /\ \A w \in Workers : WF_vars(WCancelled(w))

-----------------------------------------------------------------------------
(* The claims.                                                             *)

\* The workers that hold a dequeued item whose processing is unfinished.
Holding == { w \in Workers : pc[w] \in {"goto", "extract", "eval_links"} }

\* Every item put was dequeued and its processing has ended.
Drained == priority_queue = <<>> /\ Holding = {}

\* The URLs put on the queue after the seed.
LinkUrls == { put_log[i][2] : i \in 2..Len(put_log) }

\* C1: in every reachable state results holds at most MAX_PAGES entries (so
\* none is added once it holds MAX_PAGES).
C1_StoreWithinCap == Cardinality(DOMAIN results) <= MAX_PAGES

\* C2: a path key of results, once written, keeps its value and is never
\* removed.
C2_NeverOverwritten ==
    [][\A k \in DOMAIN results : k \in DOMAIN results' /\ results'[k] = results[k]]_vars

\* C3: no URL is put on the queue twice, the seed included.
C3_EnqueuedOnce ==
    \A i, j \in 1..Len(put_log) : i # j => put_log[i][2] # put_log[j][2]

\* C3 witness: the page holds a relevant link that resolves to the seed's URL,
\* the seed's dispatch has put another link, and the seed was put once.
C3_Witness ==
    /\ \E l \in page_links :
          /\ is_relevant_link(l.href, base_netloc(domain))
          /\ urldefrag(urljoin(start_url(domain), l.href)) = start_url(domain)
    /\ Len(put_log) >= 2
    /\ Cardinality({ i \in 1..Len(put_log) : put_log[i][2] = start_url(domain) }) = 1

\* C4: once run_crawl has answered, empty sections were answered with the 404
\* and anything else with the 200: the 500 is for faults only.
C4_EmptyIsNotFound ==
    response # 0 =>
        response = (IF DOMAIN data = {} THEN HTTP_NOT_FOUND ELSE HTTP_OK)

\* The session has ended: every worker task has ended, crawl_final has
\* returned its snapshot and run_crawl has answered.
SessionEnded ==
    /\ ctrl = "returned"
    /\ \A w \in Workers : pc[w] \in Terminated
    /\ data = results
    /\ response # 0

\* C5: every session eventually ends (under FairSpec; so no reachable state
\* is a deadlock short of the end).
C5_Terminates == <>SessionEnded

\* C5 witness: a session that ended by the total timeout, with a worker
\* cancelled.
C5_Witness ==
    /\ SessionEnded
    /\ timed_out
    /\ \E w \in Workers : pc[w] = "cancelled"

\* C6: when the drain wait has completed, before the timeout, the queue is
\* empty and no worker holds an unfinished item.
C6_JoinOnlyWhenDrained == (ctrl = "join" /\ join_finished) => Drained

\* C7: once every item put has been dequeued and processed, the drain wait
\* completes without the timeout.  In a drained state no task_done() can
\* follow (no worker holds an item and the finally clause skips an empty
\* queue), so the wait completes without the timeout only if it already has.
C7_DrainDetected == (ctrl = "join" /\ Drained) => join_finished

\* C8: on total timeout every worker that has not ended is cancelled, results
\* is not written from then on, and its contents are what is returned.
C8_TimeoutReturnsSnapshot ==
    [][timed_out' =>
          /\ \A w \in Workers : cancel_requested'[w] \/ pc'[w] \in Terminated
          /\ results' = results
          /\ (ctrl' = "returned" => data' = results)]_vars

\* C8 witness: the timeout cancelled a worker in page.goto and one in
\* extract_main_content, with a page already stored.
C8_Witness ==
    /\ timed_out
    /\ DOMAIN results # {}
    /\ \E w \in Workers : pc[w] = "goto" /\ cancel_requested[w]
    /\ \E w \in Workers : pc[w] = "extract" /\ cancel_requested[w]

\* C9: every link is put with its parent's depth + 1, by a worker whose item
\* has depth < MAX_DEPTH; only such a worker asks for the links; and no item
\* put or dequeued has depth > MAX_DEPTH.
C9_DepthBound ==
    /\ [][\A i \in (Len(put_log) + 1)..Len(put_log') :
             \E w \in Workers :
                 /\ pc[w] = "eval_links" /\ pc'[w] # "eval_links"
                 /\ entry[w][3] < MAX_DEPTH
                 /\ put_log'[i][3] = entry[w][3] + 1]_vars
    /\ [](/\ \A i \in 1..Len(put_log) : put_log[i][3] <= MAX_DEPTH
          /\ \A w \in Workers :
                entry[w] # NoEntry =>
                    /\ entry[w][3] <= MAX_DEPTH
                    /\ (pc[w] = "eval_links" => entry[w][3] < MAX_DEPTH))

\* C9 witness: a link put at depth MAX_DEPTH was dequeued and stored, and its
\* worker went on without asking for links.
C9_Witness ==
    /\ Len(put_log) >= 2
    /\ PathKey(put_log[2][2]) \in DOMAIN results
    /\ results[PathKey(put_log[2][2])].of = put_log[2][2]
    /\ put_log[2][3] = MAX_DEPTH
    /\ \A w \in Workers : pc[w] = "get"

\* The denylist of the claim, on the href: a denylisted prefix, a denylisted
\* keyword in the lower-case path, or the noise pattern in it.
Denylisted(href) ==
    \/ \E prefix \in IGNORE_EXTENSIONS_PROTOCOLS : StartsWith(Lower(href), prefix)
    \/ \E keyword \in IGNORE_PATH_KEYWORDS : Contains(Lower(urlparse(href).path), keyword)
    \/ \E seg \in IGNORE_PATTERN_SEGMENTS : Contains(Lower(urlparse(href).path), seg)
    \/ HasDigitRun(urlparse(href).path)

\* The denylisted anchors of the catalogue.
DenylistedAnchors == { l \in Anchors \cup LargePage : Denylisted(l.href) }

\* The pages of the site: the seeds and what the anchors resolve to from them.
PageUrls ==
    LET seeds == { start_url(d) : d \in Domains }
    IN  seeds \cup { urldefrag(urljoin(s, l.href)) : s \in seeds, l \in Anchors \cup LargePage }

\* The URL each anchor resolves to from each page.
ResolvedFrom ==
    [parent \in PageUrls |->
        [l \in Anchors \cup LargePage |-> urldefrag(urljoin(parent, l.href))]]

\* C10: no denylisted link of the page, inside a nav element or not, is put on
\* the queue, from whichever visited page it is resolved.
C10_DenylistedNeverEnqueued ==
    \A l \in page_links \cap DenylistedAnchors :
        \A parent \in visited_urls : ResolvedFrom[parent][l] \notin LinkUrls

\* C10 witness: the page holds /contact inside a nav element and /about; the
\* dispatch has put /about alone.
C10_Witness ==
    /\ \E l \in page_links \cap DenylistedAnchors : l.inNav
    /\ page_links \ DenylistedAnchors # {}
    /\ Len(put_log) = 2
    /\ get_link_priority(urlparse(put_log[2][2]).path) = 2

\* Some anchor of the page with this href is inside a nav element.
NavLinked(href) == \E l \in page_links : l.href = href /\ l.inNav

\* The band of a page by its path alone: 2 for a priority keyword in the
\* lower-case path, 1 for the path "/", 0 otherwise.
BandOf ==
    [u \in PageUrls |->
        IF \E keyword \in PRIORITY_PATH_KEYWORDS :
              Contains(Lower(urlparse(u).path), keyword) THEN 2
        ELSE IF urlparse(u).path = <<"/">> THEN 1
        ELSE 0]

\* The anchors of the seed's page (the one page whose links are dispatched,
\* by C9) that resolve to url.
AnchorsOf(url) ==
    { l \in page_links : ResolvedFrom[put_log[1][2]][l] = url }

\* C11: every link put has band 3 when an anchor with its href is inside a
\* nav element, and otherwise the band of its path: 2 for a priority keyword,
\* 1 for "/", 0 for the rest.
C11_PriorityBands ==
    \A i \in 2..Len(put_log) :
        /\ AnchorsOf(put_log[i][2]) # {}
        /\ \A l \in AnchorsOf(put_log[i][2]) :
              -put_log[i][1] = (IF NavLinked(l.href) THEN 3 ELSE BandOf[put_log[i][2]])

\* C11 witness: /team is on the page inside a nav element and outside one,
\* and was put in band 3 though its path is of band 0.
C11_Witness ==
    /\ \E l1, l2 \in page_links : l1.href = l2.href /\ l1.inNav /\ ~l2.inNav
    /\ Len(put_log) = 2
    /\ put_log[2][1] = -3
    /\ BandOf[put_log[2][2]] = 0

\* The place of item e among the items put.
PutIndex(e) == CHOOSE i \in 1..Len(put_log) : put_log[i] = e

\* C12: every dequeue takes an item of the highest band pending: no pending
\* item has a higher band (a lower first component) than the one taken.
C12_HighestBandFirst ==
    [][Len(priority_queue') < Len(priority_queue) =>
          \E i \in 1..Len(priority_queue) :
              /\ priority_queue' = SubSeq(priority_queue, 1, i - 1)
                                   \o SubSeq(priority_queue, i + 1, Len(priority_queue))
              /\ \A j \in 1..Len(priority_queue) :
                    -priority_queue[i][1] >= -priority_queue[j][1]]_vars

\* C12 witness: a worker navigates to an item while an item of a lower band,
\* put before it, is still pending.
C12_Witness ==
    \E w \in Workers :
        /\ pc[w] = "goto"
        /\ \E j \in 1..Len(priority_queue) :
              /\ -priority_queue[j][1] < -entry[w][1]
              /\ PutIndex(priority_queue[j]) < PutIndex(entry[w])

\* C13: among pending items of equal priority the one put first is dequeued
\* first: no item dequeued has a pending item of its priority put before it.
\* (priority_queue lists the pending items in the order they were put.)
C13_FifoWithinBand ==
    [][Len(priority_queue') < Len(priority_queue) =>
          \E i \in 1..Len(priority_queue) :
              /\ priority_queue' = SubSeq(priority_queue, 1, i - 1)
                                   \o SubSeq(priority_queue, i + 1, Len(priority_queue))
              /\ \A j \in 1..(i - 1) : priority_queue[j][1] # priority_queue[i][1]]_vars

\* C14: once results holds MAX_PAGES entries no worker starts a navigation,
\* and every item dequeued from then on is discarded without a fetch and
\* acknowledged, its worker going back to get().
C14_Backpressure ==
    [][Cardinality(DOMAIN results) >= MAX_PAGES =>
          /\ \A w \in Workers : pc'[w] = "goto" => pc[w] = "goto"
          /\ Len(priority_queue') < Len(priority_queue) =>
                /\ results' = results
                /\ unfinished_tasks' < unfinished_tasks
                /\ \A w \in Workers : pc[w] = "get" => pc'[w] = "get"]_vars

\* C15: a navigation that fails (page.goto raises) leaves results unchanged,
\* acknowledges the item and returns the worker to get(): the worker does not
\* end.
C15_NavigationFailureNonFatal ==
    [][\A w \in Workers :
          (pc[w] = "goto" /\ ~cancel_requested[w]
           /\ pc'[w] # "goto" /\ pc'[w] # "extract") =>
              /\ results' = results
              /\ unfinished_tasks' < unfinished_tasks
              /\ pc'[w] = "get"]_vars

\* The worker's text is a soft failure as the claim words it: shorter than
\* 150 characters, with the marker.
SoftFailure(v) == v.marker /\ v.raw < 150

\* C16: a text shorter than 150 characters that holds "page not found" is
\* never stored; the links are asked for only by a worker whose page was just
\* stored, so never after a soft failure; and leaving extraction puts nothing
\* back on the queue (no retry).
C16_SoftFailureExcluded ==
    /\ [](\A k \in DOMAIN results : ~SoftFailure(results[k]))
    /\ [][\A w \in Workers :
             (pc[w] = "extract" /\ pc'[w] # "extract") =>
                 /\ priority_queue' = priority_queue
                 /\ put_log' = put_log
                 /\ pc'[w] = "eval_links" =>
                       /\ PathKey(entry[w][2]) \in DOMAIN results'
                       /\ results'[PathKey(entry[w][2])].of = entry[w][2]
                       /\ ~SoftFailure(results'[PathKey(entry[w][2])])]_vars

\* C16 witness: the seed page, which holds a relevant link, answered with the
\* bare phrase: nothing is stored and nothing was put, and the count reached 0
\* by the task_done() of line 122 (the only acknowledgement possible with an
\* empty queue and an empty store).
C16_Witness ==
    /\ \E l \in page_links \ DenylistedAnchors :
          ResolvedFrom[start_url(domain)][l] # start_url(domain)
    /\ results = <<>>
    /\ Len(put_log) = 1
    /\ priority_queue = <<>>
    /\ unfinished_tasks = 0
    /\ \A w \in Workers : pc[w] = "get"

\* C17: by whichever path a worker stops (the idle timeout, the controller's
\* cancellation, a fault raised in its loop), its page is closed in the end:
\* every worker stops, and its page is then closed (a page once closed stays
\* closed, and a worker once stopped stays stopped).
C17_PageClosed ==
    <>(\A w \in Workers : pc[w] \in Terminated /\ page[w] = "closed")

\* C17 witness: the session is over with one worker cancelled and one ended
\* by a fault, neither having reached page.close(), and both pages closed.
C17_Witness ==
    /\ ctrl = "returned"
    /\ \E w \in Workers : pc[w] = "cancelled"
    /\ \E w \in Workers : pc[w] = "error"
    /\ \A w \in Workers : page[w] = "closed"

\* C18: every item dequeued is acknowledged exactly once when its pass ends,
\* and nothing else is acknowledged: while no task is cancelled, the count of
\* unfinished tasks is the number of items pending or held by a worker.
C18_AcknowledgedOnce ==
    (\A w \in Workers : ~cancel_requested[w]) =>
        unfinished_tasks = Len(priority_queue) + Cardinality(Holding)

\* The link hops from the seed of the i-th item put: the seed is at 0 hops,
\* and every link of the model is found on the seed's page (by C9 only an item
\* of depth < MAX_DEPTH dispatches, and only the seed has one).
Hops(i) == IF i = 1 THEN 0 ELSE 1

\* C19: the depth of every item put is its number of link hops from the seed.
C19_DepthIsHops ==
    \A i \in 1..Len(put_log) : put_log[i][3] = Hops(i)

\* The URLs of the items put so far: those pending and those dequeued.
PutUrls == { put_log[i][2] : i \in 1..Len(put_log) }

\* C20: the registry holds at most MAX_PAGES * 5 URLs; every URL pending or
\* ever dequeued is in it; and a URL enters it only together with the put of
\* its item.
C20_RegistryBound ==
    /\ [](/\ Cardinality(visited_urls) <= MAX_PAGES * 5
          /\ PutUrls \subseteq visited_urls
          /\ visited_urls \subseteq PutUrls)
    /\ [][visited_urls' \ visited_urls =
             { put_log'[i][2] : i \in (Len(put_log) + 1)..Len(put_log') }]_vars

\* C20 witness: the registry is full after the seed's dispatch, and a relevant
\* link of the seed's page was left out of it and of the queue.
C20_Witness ==
    /\ Cardinality(visited_urls) = MAX_PAGES * 5
    /\ Len(put_log) = MAX_PAGES * 5
    /\ \E l \in page_links \ DenylistedAnchors :
          ResolvedFrom[start_url(domain)][l] \notin visited_urls

====
